---- MODULE Spec2Model ----
(***************************************************************************)
(* Model of the Node SDK (packages/notte-node-sdk/src), one component per  *)
(* specification:                                                          *)
(*   Spec        the session lifecycle wrapper, RemoteSession, with the    *)
(*               HTTP calls it has in flight;                              *)
(*   SpecRaw     the request primitive, BaseClient.rawRequest, with its    *)
(*               timer, the response and the reading of its body;          *)
(*   SpecError   the constructor of NotteAPIError;                         *)
(*   SpecSchema  the zod request and response schemas;                     *)
(*   SpecList    BaseClient.requestList;                                   *)
(*   SpecClient  the operations of SessionsClient up to their request;     *)
(*   SpecConfig  the constructor of BaseClient and buildUrl.               *)
(* An async method runs synchronously up to its await (guards, request     *)
(* sent), and the code after the await runs as one atomic step when the    *)
(* awaited promise settles (JavaScript run-to-completion), so calls issued *)
(* before an earlier one has settled interleave at the awaits.             *)
(***************************************************************************)
EXTENDS Integers, FiniteSets, Sequences, Bags, TLC

VARIABLES
  mode,          \* "none" (no wrapper yet) | "direct" (new / fromId) | "use" (RemoteSession.use)
  attached,      \* the wrapper was built by RemoteSession.fromId
  optionsValid,  \* the constructor's options pass SessionStartRequestSchema
  _sessionId,    \* private _sessionId: string | null
  _response,     \* private _response: SessionResponse | null
  _stopped,      \* private _stopped
  pending,       \* HTTP calls in flight, a bag of [op, sid, by]
  nextCid,       \* ordinal of the next call that sends a request
  sent,          \* HTTP requests sent so far, per kind of request
  last,          \* what the most recent call or settlement did
  startOks,      \* start requests that succeeded
  firstStop,     \* snapshot the first resolved stop() returned
  latest,        \* snapshot of the most recently resolved start()/stop()
  lateSettle,    \* a start()/stop() response arrived after the first stop resolved
  usePc,         \* position of RemoteSession.use
  fnOutcome,     \* how the work function settled
  useResult,     \* how the promise returned by use settled
  useStopCalls,  \* stop() calls made by use itself
  requests,      \* BaseClient.rawRequest: the calls made on one client, by call
  timeoutMs,     \* BaseClient.timeoutMs
  errorArgs,     \* new NotteAPIError(...): the arguments
  error,         \* new NotteAPIError(...): the object constructed
  parseInput,    \* schema.parse(value): the schema and the value
  parsed,        \* schema.parse(value): the outcome
  listRaw,       \* requestList: what rawRequest settled with
  listResult,    \* requestList: how the call settled
  clientCall,    \* SessionsClient: the most recent call, up to its await
  handed,        \* SessionsClient: endpoints handed to request/requestList so far
  args,          \* new BaseClient(baseEndpointPath, options): the arguments
  env,           \* process and process.env when the client is constructed
  client,        \* BaseClient: apiKey, serverUrl, baseEndpointPath, once constructed
  built          \* buildUrl(endpointPath): the path and the URL returned

wrapper == <<_sessionId, _response, _stopped>>
calls   == <<pending, nextCid, sent>>
history == <<startOks, firstStop, latest, lateSettle>>
useVars == <<usePc, fnOutcome, useResult, useStopCalls>>
sessionVars == <<mode, attached, optionsValid, _sessionId, _response, _stopped,
                 pending, nextCid, sent, last, startOks, firstStop, latest,
                 lateSettle, usePc, fnOutcome, useResult, useStopCalls>>
rawVars == <<requests, timeoutMs>>
errorVars == <<errorArgs, error>>
schemaVars == <<parseInput, parsed>>
listVars == <<listRaw, listResult>>
clientVars == <<clientCall, handed>>
configVars == <<args, env, client, built>>
vars == <<sessionVars, rawVars, errorVars, schemaVars, listVars, clientVars, configVars>>
\* What a step of one component leaves alone.
exceptSession == <<rawVars, errorVars, schemaVars, listVars, clientVars, configVars>>
exceptRaw == <<sessionVars, errorVars, schemaVars, listVars, clientVars, configVars>>
exceptError == <<sessionVars, rawVars, schemaVars, listVars, clientVars, configVars>>
exceptSchema == <<sessionVars, rawVars, errorVars, listVars, clientVars, configVars>>
exceptList == <<sessionVars, rawVars, errorVars, schemaVars, clientVars, configVars>>
exceptClient == <<sessionVars, rawVars, errorVars, schemaVars, listVars, configVars>>
exceptConfig == <<sessionVars, requests, errorVars, schemaVars, listVars, clientVars>>

(* ------------------------------ bounds --------------------------------- *)

\* Calls that send a request, over the life of the wrapper.
MaxCalls == 3
\* Distinguishable snapshots the server can report for one session and status
\* (last_accessed_at and the other varying fields of SessionResponse).
MaxVer == 2

(* ------------------------------ values --------------------------------- *)

\* JavaScript null for the string-typed _sessionId.
NULL == "<null>"
\* Session identifiers: SessionResponseSchema.session_id is z.string(), and
\* fromId takes any string, so the empty string is one of them.
Ids == {"", "s1", "s2"}
\* JavaScript null for the record-typed _response.
NoSnap == [session_id |-> NULL, status |-> "none", ver |-> 0]

Snapshots(ids, sts) ==
  {[session_id |-> i, status |-> st, ver |-> v] : i \in ids, st \in sts, v \in 1..MaxVer}

\* A started session is reported active under a server-chosen identifier.
StartResponses == Snapshots(Ids, {"active"})
\* Stopping reports the closed session.
StopResponses(sid) == Snapshots({sid}, {"closed"})
\* status and the session embedded in page responses.
SessionResponses(sid) == Snapshots({sid}, {"active", "closed"})

PageOps == {"status", "scrape", "observe", "execute", "setCookies", "getCookies"}
\* SessionsClient parses the parameters of these against a request schema.
ValidatedOps == {"scrape", "observe", "execute"}
\* Responses that carry a session snapshot.
SnapshotOps == {"start", "stop", "status", "scrape", "observe", "execute"}
\* Why a request fails: non-2xx, timeout, transport error, response schema.
RequestErrors == {"NotteAPIError", "Timeout", "TransportError", "ZodError"}

Kind(op) == IF op \in PageOps THEN "page" ELSE op

\* JavaScript truthiness of a string | null.
Truthy(id) == id # NULL /\ id # ""

(* ------------------------------ getters -------------------------------- *)

sessionId_NoGuard == [ok |-> TRUE, id |-> _sessionId]

\* get sessionId(): throws when _sessionId is falsy.
sessionId ==
  IF ~Truthy(_sessionId) THEN [ok |-> FALSE, id |-> NULL]
  ELSE [ok |-> TRUE, id |-> _sessionId]

response == _response
isStarted == _sessionId # NULL
isStopped == _stopped

(* --------------------------- call plumbing ----------------------------- *)

\* The call reaches fetch: one request is sent and the caller awaits it.
Issue(op, sid, by) ==
  /\ nextCid <= MaxCalls
  /\ pending' = pending (+) SetToBag({[op |-> op, sid |-> sid, by |-> by]})
  /\ nextCid' = nextCid + 1
  /\ sent' = [sent EXCEPT ![Kind(op)] = @ + 1]
  /\ last' = [op |-> op, res |-> "sent", sid |-> sid, val |-> NoSnap, err |-> "none"]

\* The call ends before any request: it throws, or returns a cached value.
NoIssue(op, res, val, err) ==
  /\ UNCHANGED calls
  /\ last' = [op |-> op, res |-> res, sid |-> NULL, val |-> val, err |-> err]

Settle(c, res, val, err) ==
  /\ pending' = pending (-) SetToBag({c})
  /\ UNCHANGED <<nextCid, sent>>
  /\ last' = [op |-> c.op, res |-> res, sid |-> c.sid, val |-> val, err |-> err]

\* The caller holds the wrapper and may call it: directly, or as the work
\* function of use while that function runs.
CanCall ==
  \/ mode = "direct"
  \/ mode = "use" /\ usePc = "fn"

(* ------------------------ construction (18-28, 126-133) ---------------- *)

\* new RemoteSession(client, options): every field at its initializer.
New(valid) ==
  /\ mode = "none"
  /\ mode' = "direct"
  /\ optionsValid' = valid
  /\ UNCHANGED <<attached, wrapper, calls, last, history, useVars>>

\* RemoteSession.fromId(client, sessionId): options {} and the given id.
fromId(id) ==
  /\ mode = "none"
  /\ mode' = "direct"
  /\ attached' = TRUE
  /\ optionsValid' = TRUE
  /\ _sessionId' = id
  /\ UNCHANGED <<_response, _stopped, calls, last, history, useVars>>

(* ------------------------------ start (51-58) -------------------------- *)

\* What start() does up to its await: the guard, then SessionsClient.start,
\* which parses the options before it builds the request.
startOutcome ==
  IF Truthy(_sessionId) THEN "throws"
  ELSE IF ~optionsValid THEN "invalid"
  ELSE "sends"

start(by) ==
  /\ UNCHANGED wrapper
  /\ UNCHANGED history
  /\ CASE startOutcome = "throws" -> NoIssue("start", "throws", NoSnap, "AlreadyStarted")
       [] startOutcome = "invalid" -> NoIssue("start", "throws", NoSnap, "ZodError")
       [] startOutcome = "sends" -> Issue("start", NULL, by)

startAssign_ResetsStopped(snap) ==
  /\ _response' = snap
  /\ _sessionId' = snap.session_id
  /\ _stopped' = FALSE

\* The assignments after the await of start().
startAssign(snap) ==
  /\ _response' = snap
  /\ _sessionId' = snap.session_id
  /\ UNCHANGED _stopped

startResolved(c, snap) ==
  /\ BagIn(c, pending) /\ c.op = "start"
  /\ snap \in StartResponses
  /\ startAssign(snap)
  /\ Settle(c, "resolved", snap, "none")
  /\ startOks' = startOks + 1
  /\ latest' = snap
  /\ lateSettle' = (lateSettle \/ firstStop # NoSnap)
  /\ UNCHANGED firstStop
  /\ IF c.by = "use"
       THEN usePc' = "fn" /\ UNCHANGED <<fnOutcome, useResult, useStopCalls>>
       ELSE UNCHANGED useVars
  /\ UNCHANGED <<mode, attached, optionsValid>>

(* ------------------------------ stop (60-70) --------------------------- *)

stopOutcome_NoStoppedReturn ==
  IF ~Truthy(_sessionId) THEN "throws" ELSE "sends"

stopOutcome_NoStartedGuard ==
  IF _stopped THEN "returns" ELSE "sends"

\* What stop() does up to its await.
stopOutcome ==
  IF _stopped THEN "returns"
  ELSE IF ~Truthy(_sessionId) THEN "throws"
  ELSE "sends"

stop(by) ==
  /\ UNCHANGED wrapper
  /\ UNCHANGED history
  /\ CASE stopOutcome = "returns" -> NoIssue("stop", "returns", _response, "none")
       [] stopOutcome = "throws" -> NoIssue("stop", "throws", NoSnap, "NotStarted")
       [] stopOutcome = "sends" -> Issue("stop", _sessionId, by)

stopAssign_NoCache(snap) ==
  /\ _stopped' = TRUE
  /\ UNCHANGED <<_response, _sessionId>>

\* The assignments after the await of stop().
stopAssign(snap) ==
  /\ _response' = snap
  /\ _stopped' = TRUE
  /\ UNCHANGED _sessionId

stopResolved(c, snap) ==
  /\ BagIn(c, pending) /\ c.op = "stop"
  /\ snap \in StopResponses(c.sid)
  /\ stopAssign(snap)
  /\ Settle(c, "resolved", snap, "none")
  /\ firstStop' = IF firstStop = NoSnap THEN snap ELSE firstStop
  /\ latest' = snap
  /\ lateSettle' = (lateSettle \/ firstStop # NoSnap)
  /\ UNCHANGED startOks
  /\ IF c.by = "use"
       THEN /\ usePc' = "done"
            /\ useResult' = fnOutcome
            /\ UNCHANGED <<fnOutcome, useStopCalls>>
       ELSE UNCHANGED useVars
  /\ UNCHANGED <<mode, attached, optionsValid>>

(* ------------------ page and cookie operations (72-94) ----------------- *)

\* status / scrape / observe / execute / setCookies / getCookies: the
\* sessionId getter is evaluated first, then SessionsClient validates the
\* parameters of the operations that have a request schema.
pageOp(op, valid) ==
  /\ UNCHANGED wrapper
  /\ UNCHANGED history
  /\ IF ~sessionId.ok
       THEN NoIssue(op, "throws", NoSnap, "NotStarted")
       ELSE IF op \in ValidatedOps /\ ~valid
         THEN NoIssue(op, "throws", NoSnap, "ZodError")
         ELSE Issue(op, sessionId.id, "caller")

pageResolved_Caches(c, snap) ==
  /\ BagIn(c, pending) /\ c.op \in PageOps
  /\ snap \in SessionResponses(c.sid)
  /\ Settle(c, "resolved", snap, "none")
  /\ _response' = snap
  /\ UNCHANGED <<mode, attached, optionsValid, _sessionId, _stopped, history, useVars>>

\* The response is handed to the caller; the wrapper keeps nothing of it.
pageResolved(c, snap) ==
  /\ BagIn(c, pending) /\ c.op \in PageOps
  /\ snap \in SessionResponses(c.sid)
  /\ Settle(c, "resolved", snap, "none")
  /\ UNCHANGED <<mode, attached, optionsValid, wrapper, history, useVars>>

Rejected_MarksStopped(c, err) ==
  /\ BagIn(c, pending)
  /\ err \in RequestErrors
  /\ Settle(c, "rejected", NoSnap, err)
  /\ _stopped' = (_stopped \/ c.op = "stop")
  /\ UNCHANGED <<mode, attached, optionsValid, _sessionId, _response, history>>
  /\ IF c.by = "use"
       THEN /\ usePc' = "done"
            /\ useResult' = IF c.op = "start" THEN "StartError" ELSE "StopError"
            /\ UNCHANGED <<fnOutcome, useStopCalls>>
       ELSE UNCHANGED useVars

Rejected_Retries(c, err) ==
  /\ BagIn(c, pending)
  /\ err \in RequestErrors
  /\ nextCid <= MaxCalls
  /\ UNCHANGED pending
  /\ nextCid' = nextCid + 1
  /\ sent' = [sent EXCEPT ![Kind(c.op)] = @ + 1]
  /\ last' = [op |-> c.op, res |-> "sent", sid |-> c.sid, val |-> NoSnap, err |-> "none"]
  /\ UNCHANGED <<mode, attached, optionsValid, wrapper, history, useVars>>

\* Any request can fail (non-2xx, timeout, transport error, response that
\* does not parse): the await throws and the assignments after it never run.
Rejected(c, err) ==
  /\ BagIn(c, pending)
  /\ err \in RequestErrors
  /\ Settle(c, "rejected", NoSnap, err)
  /\ UNCHANGED <<mode, attached, optionsValid, wrapper, history>>
  /\ IF c.by = "use"
       THEN /\ usePc' = "done"
            /\ useResult' = IF c.op = "start" THEN "StartError" ELSE "StopError"
            /\ UNCHANGED <<fnOutcome, useStopCalls>>
       ELSE UNCHANGED useVars

(* ----------------------- calls made by the caller ---------------------- *)

CallStart ==
  /\ CanCall
  /\ start("caller")
  /\ UNCHANGED <<mode, attached, optionsValid, useVars>>

CallStop ==
  /\ CanCall
  /\ stop("caller")
  /\ UNCHANGED <<mode, attached, optionsValid, useVars>>

CallPageOp(op, valid) ==
  /\ CanCall
  /\ pageOp(op, valid)
  /\ UNCHANGED <<mode, attached, optionsValid, useVars>>

\* Reading the sessionId property.
ReadSessionId ==
  /\ CanCall
  /\ UNCHANGED calls
  /\ last' = IF sessionId.ok
       THEN [op |-> "sessionId", res |-> "returns", sid |-> sessionId.id,
             val |-> NoSnap, err |-> "none"]
       ELSE [op |-> "sessionId", res |-> "throws", sid |-> NULL,
             val |-> NoSnap, err |-> "NotStarted"]
  /\ UNCHANGED <<mode, attached, optionsValid, wrapper, history, useVars>>

\* [Symbol.asyncDispose] (135-140).
asyncDispose ==
  /\ CanCall
  /\ IF Truthy(_sessionId) /\ ~_stopped
       THEN stop("caller")
       ELSE NoIssue("dispose", "returns", NoSnap, "none")
            /\ UNCHANGED <<wrapper, history>>
  /\ UNCHANGED <<mode, attached, optionsValid, useVars>>

(* ------------------------ RemoteSession.use (109-121) ------------------ *)

\* const session = new RemoteSession(client, options)
UseNew(valid) ==
  /\ mode = "none"
  /\ mode' = "use"
  /\ optionsValid' = valid
  /\ usePc' = "new"
  /\ UNCHANGED <<attached, wrapper, calls, last, history, fnOutcome, useResult,
                 useStopCalls>>

UseStart_NoAwait ==
  /\ mode = "use" /\ usePc = "new"
  /\ start("use")
  /\ IF startOutcome = "sends"
       THEN usePc' = "fn" /\ UNCHANGED useResult
       ELSE usePc' = "done" /\ useResult' = "StartError"
  /\ UNCHANGED <<mode, attached, optionsValid, fnOutcome, useStopCalls>>

\* await session.start(): outside the try, so a start that fails ends use.
UseStart ==
  /\ mode = "use" /\ usePc = "new"
  /\ start("use")
  /\ IF startOutcome = "sends"
       THEN usePc' = "start" /\ UNCHANGED useResult
       ELSE usePc' = "done" /\ useResult' = "StartError"
  /\ UNCHANGED <<mode, attached, optionsValid, fnOutcome, useStopCalls>>

\* fn(session) settles: it resolves with a value or rejects with its error.
FnSettles(outcome) ==
  /\ mode = "use" /\ usePc = "fn"
  /\ outcome \in {"value", "WorkError"}
  /\ fnOutcome' = outcome
  /\ usePc' = "finally"
  /\ UNCHANGED <<mode, attached, optionsValid, wrapper, calls, last, history,
                 useResult, useStopCalls>>

UseFinally_StopOnSuccessOnly ==
  /\ mode = "use" /\ usePc = "finally"
  /\ IF fnOutcome = "value"
       THEN /\ stop("use")
            /\ useStopCalls' = useStopCalls + 1
            /\ CASE stopOutcome = "sends" -> usePc' = "stop" /\ UNCHANGED useResult
                 [] stopOutcome = "returns" -> usePc' = "done" /\ useResult' = fnOutcome
                 [] stopOutcome = "throws" -> usePc' = "done" /\ useResult' = "StopError"
       ELSE /\ usePc' = "done" /\ useResult' = fnOutcome
            /\ UNCHANGED <<wrapper, calls, last, history, useStopCalls>>
  /\ UNCHANGED <<mode, attached, optionsValid, fnOutcome>>

\* finally { await session.stop() }: an error thrown in the finally block
\* replaces the pending completion of the try block.
UseFinally ==
  /\ mode = "use" /\ usePc = "finally"
  /\ stop("use")
  /\ useStopCalls' = useStopCalls + 1
  /\ CASE stopOutcome = "sends" -> usePc' = "stop" /\ UNCHANGED useResult
       [] stopOutcome = "returns" -> usePc' = "done" /\ useResult' = fnOutcome
       [] stopOutcome = "throws" -> usePc' = "done" /\ useResult' = "StopError"
  /\ UNCHANGED <<mode, attached, optionsValid, fnOutcome>>

(* ------------------------ NotteAPIError (errors.ts) -------------------- *)

\* JSON values as the error class tells them apart: typeof, the own keys of
\* an object with their values, and the characters of a string.  A member is
\* <<key, typeof value, text of the value>>.
JNull == [t |-> "null", kv |-> {}, s |-> ""]
JStr(str) == [t |-> "string", kv |-> {}, s |-> str]
JObj(members) == [t |-> "object", kv |-> members, s |-> ""]

HasKey(v, key) == v.t = "object" /\ \E m \in v.kv : m[1] = key
Member(v, key) == CHOOSE m \in v.kv : m[1] = key

\* String(x) of a member value: a string is itself, null is "null", a number
\* its decimal text.
String(m) == IF m[2] = "null" THEN "null" ELSE m[3]

\* The message of a NotteAPIError, as the pieces the template literals join.
Message(statusCode, errorBody, path) ==
  LET message ==
        IF HasKey(errorBody, "detail") THEN <<String(Member(errorBody, "detail"))>>
        ELSE IF HasKey(errorBody, "message") THEN <<String(Member(errorBody, "message"))>>
        ELSE IF errorBody.t = "string" /\ errorBody.s # "" THEN <<errorBody.s>>
        ELSE <<"API request failed with status ", ToString(statusCode)>>
  IN message \o <<" (", path, ")">>

\* new NotteAPIError(statusCode, errorBody, path)
NotteAPIError(statusCode, errorBody, path) ==
  [name |-> "NotteAPIError", statusCode |-> statusCode, errorBody |-> errorBody,
   path |-> path, message |-> Message(statusCode, errorBody, path), value |-> JNull]

\* Any other error a call rejects with, and the value it resolves with.
Thrown(name) ==
  [name |-> name, statusCode |-> -1, errorBody |-> JNull, path |-> "",
   message |-> <<>>, value |-> JNull]
Returned(v) ==
  [name |-> "none", statusCode |-> -1, errorBody |-> JNull, path |-> "",
   message |-> <<>>, value |-> v]
NoOutcome == Thrown("pending")

(* -------------------- BaseClient.rawRequest (base-client.ts) ----------- *)

\* Ticks of the clock a call is followed for.
MaxClock == 3
\* Largest configured timeout, in ticks.
MaxTimeout == 2

\* The calls followed on one client instance.
Rids == {"r1", "r2"}
Timeouts == 1..MaxTimeout

\* Endpoint descriptors SessionsClient hands to the primitive: method, path
\* relative to the domain prefix, and the body ("cyclic": an object
\* JSON.stringify throws on, such as one holding a BigInt or a cycle).
Endpoints ==
  { [method |-> "GET", path |-> "s1", body |-> "none"],
    [method |-> "POST", path |-> "start", body |-> "plain"],
    [method |-> "POST", path |-> "s1/cookies", body |-> "cyclic"] }
NoEndpoint == [method |-> "none", path |-> "", body |-> "none"]

Statuses == {200, 404, 503}
\* Response.ok
Ok(status) == status >= 200 /\ status <= 299

\* Response bodies as sent, and JSON.parse of each.
BodyTexts == {"{\"detail\":\"Not found\"}", "\"plain text\"", "plain text", ""}
JsonParse(text) ==
  CASE text = "{\"detail\":\"Not found\"}" ->
         [ok |-> TRUE, value |-> JObj({<<"detail", "string", "Not found">>})]
    [] text = "\"plain text\"" -> [ok |-> TRUE, value |-> JStr("plain text")]
    [] OTHER -> [ok |-> FALSE, value |-> JNull]

NoResponse == [status |-> 0, text |-> "", bodyUsed |-> FALSE]

\* Response.json() and Response.text(): the body of a Response is a stream
\* that is read once; a second read rejects with a TypeError.
Read(resp) == [resp EXCEPT !.bodyUsed = TRUE]
ResponseJson(resp) ==
  IF resp.bodyUsed THEN [ok |-> FALSE, value |-> JNull] ELSE JsonParse(resp.text)
ResponseText(resp) ==
  IF resp.bodyUsed THEN [ok |-> FALSE, value |-> JNull]
  ELSE [ok |-> TRUE, value |-> JStr(resp.text)]

IdleRequest ==
  [pc |-> "idle", endpoint |-> NoEndpoint, timer |-> "none", elapsed |-> 0,
   took |-> 0, response |-> NoResponse, outcome |-> NoOutcome]

\* The timer of call r has run out and its callback is the next to run.
TimerDue(r) == requests[r].timer = "pending" /\ requests[r].elapsed >= timeoutMs
\* Time passes for call r: it is awaiting, or its timer is still armed.
Running(r) ==
  \/ requests[r].pc \in {"fetch", "errorBody", "okBody"}
  \/ requests[r].timer = "pending"

Finish(q, outcome) ==
  [q EXCEPT !.pc = "done", !.outcome = outcome, !.took = q.elapsed]

\* rawRequest up to `await fetch` (135-161): the timer is armed, then the
\* body of a POST/PATCH is serialised, outside the try.
rawRequest(r, ep) ==
  /\ requests[r].pc = "idle"
  /\ LET armed == [requests[r] EXCEPT !.endpoint = ep, !.timer = "pending"]
     IN requests' = [requests EXCEPT ![r] =
          IF ep.method \in {"POST", "PATCH"} /\ ep.body = "cyclic"
            THEN Finish(armed, Thrown("TypeError"))
            ELSE [armed EXCEPT !.pc = "fetch"]]
  /\ UNCHANGED <<timeoutMs, exceptRaw>>

\* One tick passes; a timer that has run out fires before more time passes.
Tick ==
  /\ \E r \in Rids : Running(r)
  /\ \A r \in Rids : ~TimerDue(r) /\ requests[r].elapsed < MaxClock
  /\ requests' = [r \in Rids |->
       IF Running(r) THEN [requests[r] EXCEPT !.elapsed = @ + 1] ELSE requests[r]]
  /\ UNCHANGED <<timeoutMs, exceptRaw>>

\* fetch resolves with the response head (161, 173-175): finally clears the
\* timer, and the body is read afterwards.
FetchResolves(r, status, text) ==
  /\ requests[r].pc = "fetch" /\ ~TimerDue(r)
  /\ requests' = [requests EXCEPT ![r] =
       [@ EXCEPT !.pc = IF Ok(status) THEN "okBody" ELSE "errorBody",
                 !.timer = "cleared",
                 !.response = [status |-> status, text |-> text, bodyUsed |-> FALSE]]]
  /\ UNCHANGED <<timeoutMs, exceptRaw>>

\* fetch rejects with a network failure (162-172): not an AbortError, rethrown.
FetchRejects(r) ==
  /\ requests[r].pc = "fetch" /\ ~TimerDue(r)
  /\ requests' = [requests EXCEPT ![r] =
       Finish([@ EXCEPT !.timer = "cleared"], Thrown("TransportError"))]
  /\ UNCHANGED <<timeoutMs, exceptRaw>>

Timeout_SharedController(r) ==
  /\ requests[r].pc = "fetch" /\ TimerDue(r)
  /\ requests' = [o \in Rids |->
       IF requests[o].pc = "fetch"
         THEN Finish([requests[o] EXCEPT !.timer = "fired"],
                     NotteAPIError(0, JStr("Request timed out"), requests[o].endpoint.path))
         ELSE requests[o]]
  /\ UNCHANGED <<timeoutMs, exceptRaw>>

\* The timer fires while fetch is pending (145, 162-170): controller.abort()
\* rejects fetch with an AbortError, which the catch turns into the error.
Timeout(r) ==
  /\ requests[r].pc = "fetch" /\ TimerDue(r)
  /\ requests' = [requests EXCEPT ![r] =
       Finish([@ EXCEPT !.timer = "fired"],
              NotteAPIError(0, JStr("Request timed out"), @.endpoint.path))]
  /\ UNCHANGED <<timeoutMs, exceptRaw>>

\* The timer of a call that has already ended fires: abort() has no effect.
TimerFires(r) ==
  /\ requests[r].pc = "done" /\ TimerDue(r)
  /\ requests' = [requests EXCEPT ![r] = [@ EXCEPT !.timer = "fired"]]
  /\ UNCHANGED <<timeoutMs, exceptRaw>>

\* The error thrown for a non-2xx response (177-185): response.json(), and
\* response.text() on the same response when that rejects.
ErrorOf(q) ==
  LET json == ResponseJson(q.response)
      text == ResponseText(Read(q.response))
  IN IF json.ok THEN NotteAPIError(q.response.status, json.value, q.endpoint.path)
     ELSE IF text.ok THEN NotteAPIError(q.response.status, text.value, q.endpoint.path)
     ELSE Thrown("TypeError")

ErrorBody(r) ==
  /\ requests[r].pc = "errorBody"
  /\ requests' = [requests EXCEPT ![r] =
       Finish([@ EXCEPT !.response = Read(@)], ErrorOf(@))]
  /\ UNCHANGED <<timeoutMs, exceptRaw>>

\* return response.json() (187)
OkBody(r) ==
  /\ requests[r].pc = "okBody"
  /\ requests' = [requests EXCEPT ![r] =
       LET json == ResponseJson(@.response)
       IN Finish([@ EXCEPT !.response = Read(@)],
                 IF json.ok THEN Returned(json.value) ELSE Thrown("SyntaxError"))]
  /\ UNCHANGED <<timeoutMs, exceptRaw>>

\* No call has been made on the client.
NoRequests ==
  /\ requests = [r \in Rids |-> IdleRequest]
  /\ timeoutMs = MaxTimeout

(* ------------- BaseClient: construction, buildUrl (base-client.ts) ----- *)

\* Slashes put before or after a path or a server URL.
MaxSlashes == 2

\* A string of the configuration is the sequence of its pieces: "/" is one
\* slash, any other piece is a run of characters without a slash; "" is <<>>.
UNDEFINED == <<"<undefined>">>
NullPath == <<"<null>">>
\* JavaScript falsiness of a string | null | undefined.
Falsy(str) == str = UNDEFINED \/ str = NullPath \/ str = <<>>
\* a ?? b
Coalesce(a, b) == IF a = UNDEFINED \/ a = NullPath THEN b ELSE a

DEFAULT_SERVER_URL == <<"https:", "/", "/", "api.notte.cc">>
DEFAULT_TIMEOUT_MS == 60000

RECURSIVE Slashes(_)
Slashes(n) == IF n = 0 THEN <<>> ELSE <<"/">> \o Slashes(n - 1)

\* What the caller passes and what the environment holds.
ApiKeys == {UNDEFINED, <<>>, <<"explicit-key">>}
EnvKeys == {UNDEFINED, <<>>, <<"test-key">>}
ServerUrls ==
  {UNDEFINED}
  \cup {u \o Slashes(n) : u \in {DEFAULT_SERVER_URL, <<"https:", "/", "/", "custom.api">>},
                          n \in 0..MaxSlashes}
EnvUrls == {UNDEFINED, <<"https:", "/", "/", "staging.notte.cc", "/">>}
TimeoutOptions ==
  {[given |-> FALSE, value |-> 0]} \cup {[given |-> TRUE, value |-> t] : t \in Timeouts}
\* The domain prefixes the subclasses pass, and null.
BasePaths == {NullPath, <<"sessions">>, <<"test">>}
Args ==
  [baseEndpointPath : BasePaths,
   options : [apiKey : ApiKeys, serverUrl : ServerUrls, timeoutMs : TimeoutOptions]]
Envs == [process : BOOLEAN, NOTTE_API_KEY : EnvKeys, NOTTE_API_URL : EnvUrls]
\* Relative paths of endpoints, with slashes before and after.
EndpointPaths ==
  {Slashes(a) \o core \o Slashes(b) :
     core \in {<<>>, <<"foo">>, <<"s1", "/", "stop">>}, a \in 0..MaxSlashes,
     b \in 0..MaxSlashes}

\* typeof process !== "undefined" ? process.env.NAME : undefined
EnvKey == IF env.process THEN env.NOTTE_API_KEY ELSE UNDEFINED
EnvUrl == IF env.process THEN env.NOTTE_API_URL ELSE UNDEFINED

NoClient ==
  [state |-> "none", error |-> "none", apiKey |-> UNDEFINED, serverUrl |-> UNDEFINED,
   baseEndpointPath |-> UNDEFINED]
NoUrl == [called |-> FALSE, endpointPath |-> <<>>, url |-> <<>>]

token_Unchecked == <<Coalesce(args.options.apiKey, EnvKey), FALSE>>

\* const token = options.apiKey ?? env; if (!token) throw (94-99): the token
\* and whether the constructor throws.
token ==
  LET t == Coalesce(args.options.apiKey, EnvKey) IN <<t, Falsy(t)>>

\* constructor(baseEndpointPath, options) (90-109)
constructor ==
  /\ client.state = "none"
  /\ IF token[2]
       THEN /\ client' = [client EXCEPT !.state = "threw", !.error = "AuthenticationError"]
            /\ UNCHANGED timeoutMs
       ELSE /\ client' = [state |-> "constructed", error |-> "none", apiKey |-> token[1],
                          serverUrl |-> Coalesce(Coalesce(args.options.serverUrl, EnvUrl),
                                                 DEFAULT_SERVER_URL),
                          baseEndpointPath |-> args.baseEndpointPath]
            /\ timeoutMs' = IF args.options.timeoutMs.given
                              THEN args.options.timeoutMs.value
                              ELSE DEFAULT_TIMEOUT_MS
  /\ UNCHANGED <<args, env, built, exceptConfig>>

\* str.replace(/\/+$/, "") and str.replace(/^\/+/, "")
RECURSIVE StripTrailing(_)
StripTrailing(str) ==
  IF str # <<>> /\ str[Len(str)] = "/" THEN StripTrailing(SubSeq(str, 1, Len(str) - 1))
  ELSE str
RECURSIVE StripLeading(_)
StripLeading(str) ==
  IF str # <<>> /\ Head(str) = "/" THEN StripLeading(Tail(str)) ELSE str

buildUrl_KeepsLeading(endpointPath) ==
  LET base == StripTrailing(client.serverUrl)
               \o (IF Falsy(client.baseEndpointPath) THEN <<>>
                   ELSE <<"/">> \o StripLeading(StripTrailing(client.baseEndpointPath)))
      ep == endpointPath
  IN IF ep # <<>> THEN base \o <<"/">> \o ep ELSE base

\* buildUrl(endpointPath) (120-127)
buildUrl(endpointPath) ==
  LET base == StripTrailing(client.serverUrl)
               \o (IF Falsy(client.baseEndpointPath) THEN <<>>
                   ELSE <<"/">> \o StripLeading(StripTrailing(client.baseEndpointPath)))
      ep == StripLeading(endpointPath)
  IN IF ep # <<>> THEN base \o <<"/">> \o ep ELSE base

\* A call of buildUrl on the constructed client.
Build(endpointPath) ==
  /\ client.state = "constructed"
  /\ built' = [called |-> TRUE, endpointPath |-> endpointPath, url |-> buildUrl(endpointPath)]
  /\ UNCHANGED <<args, env, client, timeoutMs, exceptConfig>>

\* No client is being constructed: the one the calls are made on exists.
NoConfig ==
  /\ args = [baseEndpointPath |-> <<"sessions">>,
             options |-> [apiKey |-> <<"explicit-key">>, serverUrl |-> UNDEFINED,
                          timeoutMs |-> [given |-> TRUE, value |-> timeoutMs]]]
  /\ env = [process |-> TRUE, NOTTE_API_KEY |-> UNDEFINED, NOTTE_API_URL |-> UNDEFINED]
  /\ client = [state |-> "constructed", error |-> "none", apiKey |-> <<"explicit-key">>,
               serverUrl |-> DEFAULT_SERVER_URL, baseEndpointPath |-> <<"sessions">>]
  /\ built = NoUrl

(* ------------------ constructing a NotteAPIError (errors.ts) ----------- *)

\* Error bodies the constructor is given: what response.json() can return,
\* and the strings the client passes itself.
ErrorBodies ==
  { JObj({<<"detail", "string", "Not found">>}),
    JObj({<<"message", "string", "Internal error">>}),
    JObj({<<"detail", "string", "Bad request">>, <<"message", "string", "Internal error">>}),
    JObj({<<"detail", "null", "">>, <<"message", "string", "Internal error">>}),
    JObj({<<"detail", "number", "42">>}),
    JObj({<<"error", "string", "oops">>}),
    JObj({}),
    JStr("plain text"),
    JStr(""),
    JNull }
ErrorPaths == {"/test", "s1/stop"}
ErrorArgs == [statusCode : {0, 404, 503}, errorBody : ErrorBodies, path : ErrorPaths]

NoError ==
  /\ errorArgs = [statusCode |-> 0, errorBody |-> JNull, path |-> ""]
  /\ error = NoOutcome

\* new NotteAPIError(statusCode, errorBody, path)
Construct ==
  /\ error = NoOutcome
  /\ error' = NotteAPIError(errorArgs.statusCode, errorArgs.errorBody, errorArgs.path)
  /\ UNCHANGED <<errorArgs, exceptError>>

(* ----------------------- schemas (types/*.ts, zod) -------------------- *)

\* A value handed to a schema is a set of members <<key, kind, token, elems>>:
\* kind is "scalar", "object", "array" or "null"; token tells a scalar of the
\* type its key declares ("ok") from one of another type ("bad"); elems are
\* the nested objects (one for an object, the elements of an array), each a
\* set of <<key, token>> whose token is "ok", "bad" or the text of a literal.

\* z.object({...}) of scalar fields: the unknown-key policy ("strict",
\* "passthrough", or zod's default "strip"), the keys that must be present,
\* the .optional() keys, and the z.literal of the key "type" if it has one.
NotteProxySchema ==
  [policy |-> "strip", required |-> {"type"}, optional |-> {"id", "country"},
   tag |-> "notte"]
ExternalProxySchema ==
  [policy |-> "strip", required |-> {"type", "server"},
   optional |-> {"username", "password", "bypass"}, tag |-> "external"]
\* z.discriminatedUnion("type", [...])
ProxySettingsSchema == <<NotteProxySchema, ExternalProxySchema>>
SessionProfileSchema ==
  [policy |-> "strip", required |-> {"id"}, optional |-> {"persist"}, tag |-> ""]

\* A schema used for a nested object.
Flat(S) == [policy |-> S.policy, required |-> S.required, optional |-> S.optional,
            tag |-> ""]

SessionStartRequestSchema ==
  [policy |-> "strict", required |-> {},
   optional |-> {"headless", "solve_captchas", "max_duration_minutes",
                 "idle_timeout_minutes", "proxies", "browser_type", "user_agent",
                 "chrome_args", "viewport_width", "viewport_height", "cdp_url",
                 "use_file_storage", "screenshot_type", "profile", "web_bot_auth"},
   nested |-> {[key |-> "proxies", kinds |-> {"array", "scalar"},
                variants |-> ProxySettingsSchema],
               [key |-> "profile", kinds |-> {"object", "null"},
                variants |-> <<SessionProfileSchema>>]}]

SessionResponseSchema_Strip ==
  [policy |-> "strip",
   required |-> {"session_id", "idle_timeout_minutes", "max_duration_minutes",
                 "created_at", "last_accessed_at", "status"},
   optional |-> {"closed_at", "duration", "steps", "error", "credit_usage",
                 "proxies", "browser_type", "use_file_storage",
                 "network_request_bytes", "network_response_bytes", "user_agent",
                 "viewport_width", "viewport_height", "headless", "solve_captchas",
                 "cdp_url", "viewer_url", "web_bot_auth"},
   nested |-> {}]

SessionResponseSchema ==
  [policy |-> "passthrough",
   required |-> {"session_id", "idle_timeout_minutes", "max_duration_minutes",
                 "created_at", "last_accessed_at", "status"},
   optional |-> {"closed_at", "duration", "steps", "error", "credit_usage",
                 "proxies", "browser_type", "use_file_storage",
                 "network_request_bytes", "network_response_bytes", "user_agent",
                 "viewport_width", "viewport_height", "headless", "solve_captchas",
                 "cdp_url", "viewer_url", "web_bot_auth"},
   nested |-> {}]

SessionListRequestSchema ==
  [policy |-> "strict", required |-> {},
   optional |-> {"only_active", "page_size", "page"}, nested |-> {}]

ScrapeRequestSchema ==
  [policy |-> "strict", required |-> {},
   optional |-> {"selector", "scrape_links", "scrape_images", "ignored_tags",
                 "only_main_content", "only_images", "response_format",
                 "instructions", "use_link_placeholders"},
   nested |-> {}]

\* The session embedded in the page responses.
EmbeddedSession ==
  [key |-> "session", kinds |-> {"object"}, variants |-> <<Flat(SessionResponseSchema)>>]

ScrapeResponseSchema ==
  [policy |-> "passthrough", required |-> {"session"},
   optional |-> {"markdown", "structured_data", "images", "metadata"},
   nested |-> {EmbeddedSession}]

ObserveRequestSchema ==
  [policy |-> "strict", required |-> {},
   optional |-> {"url", "instructions", "perception_type", "min_nb_actions",
                 "max_nb_actions"},
   nested |-> {}]

ObserveResponseSchema ==
  [policy |-> "passthrough", required |-> {"session"},
   optional |-> {"metadata", "space", "screenshot"},
   nested |-> {EmbeddedSession}]

ExecutionRequestSchema ==
  [policy |-> "strict", required |-> {"type"},
   optional |-> {"id", "value", "enter", "selector", "url", "key", "milliseconds",
                 "path", "script", "tab_idx"},
   nested |-> {}]

ExecutionResponseSchema ==
  [policy |-> "passthrough", required |-> {"session"},
   optional |-> {"success", "message", "exception", "url"},
   nested |-> {EmbeddedSession}]

CookieSchema ==
  [policy |-> "passthrough",
   required |-> {"name", "value", "domain", "path", "httpOnly"},
   optional |-> {"expirationDate", "hostOnly", "sameSite", "secure", "session",
                 "storeId", "expires", "partitionKey"},
   nested |-> {}]

\* cookies: z.array(CookieSchema)
CookieArray ==
  [key |-> "cookies", kinds |-> {"array"}, variants |-> <<Flat(CookieSchema)>>]

SetCookiesRequestSchema ==
  [policy |-> "strict", required |-> {"cookies"}, optional |-> {},
   nested |-> {CookieArray}]

SetCookiesResponseSchema ==
  [policy |-> "passthrough", required |-> {"success", "message"}, optional |-> {},
   nested |-> {}]

GetCookiesResponseSchema ==
  [policy |-> "passthrough", required |-> {"cookies"}, optional |-> {},
   nested |-> {CookieArray}]

RequestSchemas ==
  {"SessionStartRequest", "SessionListRequest", "ScrapeRequest", "ObserveRequest",
   "ExecutionRequest", "SetCookiesRequest"}
ResponseSchemas ==
  {"SessionResponse", "ScrapeResponse", "ObserveResponse", "ExecutionResponse",
   "SetCookiesResponse", "GetCookiesResponse"}
SchemaNames == RequestSchemas \cup ResponseSchemas \cup {"Cookie"}

SchemaOf(name) ==
  CASE name = "SessionStartRequest" -> SessionStartRequestSchema
    [] name = "SessionListRequest" -> SessionListRequestSchema
    [] name = "ScrapeRequest" -> ScrapeRequestSchema
    [] name = "ObserveRequest" -> ObserveRequestSchema
    [] name = "ExecutionRequest" -> ExecutionRequestSchema
    [] name = "SetCookiesRequest" -> SetCookiesRequestSchema
    [] name = "SessionResponse" -> SessionResponseSchema
    [] name = "ScrapeResponse" -> ScrapeResponseSchema
    [] name = "ObserveResponse" -> ObserveResponseSchema
    [] name = "ExecutionResponse" -> ExecutionResponseSchema
    [] name = "SetCookiesResponse" -> SetCookiesResponseSchema
    [] name = "GetCookiesResponse" -> GetCookiesResponseSchema
    [] name = "Cookie" -> CookieSchema

Known(S) == S.required \cup S.optional
Keys(v) == {m[1] : m \in v}
NestedKeys(S) == {n.key : n \in S.nested}
NestedOf(S, key) == CHOOSE n \in S.nested : n.key = key

\* Parsing a nested object f against z.object fs.
TokenOk(fs, m) == IF m[1] = "type" /\ fs.tag # "" THEN m[2] = fs.tag ELSE m[2] = "ok"
ParseFlat(fs, f) ==
  [ok |-> /\ fs.required \subseteq Keys(f)
          /\ \A m \in f : m[1] \in Known(fs) => TokenOk(fs, m)
          /\ fs.policy = "strict" => Keys(f) \subseteq Known(fs),
   value |-> IF fs.policy = "passthrough" THEN f ELSE {m \in f : m[1] \in Known(fs)}]

\* The option of a union that the object's discriminator selects; a schema
\* that is not a union is its own only option.
Selects(variants, f) ==
  {i \in DOMAIN variants :
     Len(variants) = 1 \/ <<"type", variants[i].tag>> \in f}
ParseElem(variants, f) ==
  IF Selects(variants, f) = {} THEN [ok |-> FALSE, value |-> f]
  ELSE ParseFlat(variants[CHOOSE i \in Selects(variants, f) : TRUE], f)

\* Parsing the member m of a value against the field its key declares.
ParseMember(S, m) ==
  IF m[1] \in NestedKeys(S)
    THEN LET n == NestedOf(S, m[1]) IN
      [ok |-> /\ m[2] \in n.kinds
              /\ m[2] = "scalar" => m[3] = "ok"
              /\ \A i \in DOMAIN m[4] : ParseElem(n.variants, m[4][i]).ok,
       value |-> <<m[1], m[2], m[3],
                   [i \in DOMAIN m[4] |-> ParseElem(n.variants, m[4][i]).value]>>]
    ELSE [ok |-> m[2] = "scalar" /\ m[3] = "ok", value |-> m]

\* schema.parse(v): ok is false where parse throws a ZodError.
ZodParse(S, v) ==
  [ok |-> /\ S.required \subseteq Keys(v)
          /\ \A m \in v : m[1] \in Known(S) => ParseMember(S, m).ok
          /\ S.policy = "strict" => Keys(v) \subseteq Known(S),
   value |-> {ParseMember(S, m).value : m \in {k \in v : k[1] \in Known(S)}}
             \cup (IF S.policy = "passthrough"
                     THEN {m \in v : m[1] \notin Known(S)} ELSE {})]

\* The values parsed: for each schema an object with its required keys, with
\* or without its nested objects, and the ways such an object goes wrong.
ExtraKey == "future_field"
DropKeys == {"", "name", "value", "domain", "path", "httpOnly", "server", "id",
             "session_id"}
Shapes(S) ==
  [rich : BOOLEAN, extraTop : BOOLEAN, extraNested : BOOLEAN,
   dropTop : {""} \cup S.required, dropNested : DropKeys, empty : BOOLEAN,
   bad : BOOLEAN]

GenFlat(fs, shape) ==
  {<<k, IF k = "type" /\ fs.tag # "" THEN fs.tag ELSE "ok">> :
      k \in fs.required \ {shape.dropNested}}
  \cup (IF shape.extraNested THEN {<<ExtraKey, "ok">>} ELSE {})

GenMember(S, key, shape) ==
  IF key \in NestedKeys(S)
    THEN LET n == NestedOf(S, key) IN
      IF "array" \in n.kinds
        THEN <<key, "array", "",
               IF shape.empty THEN <<>>
               ELSE [i \in DOMAIN n.variants |-> GenFlat(n.variants[i], shape)]>>
        ELSE <<key, "object", "", <<GenFlat(n.variants[1], shape)>>>>
    ELSE <<key, "scalar", "ok", <<>>>>

\* A scalar field of the schema, given a value of the wrong type.
BadKey(S) == CHOOSE k \in Known(S) \ NestedKeys(S) : TRUE
Gen(S, shape) ==
  LET keys == (IF shape.rich THEN S.required \cup NestedKeys(S) ELSE S.required)
              \ {shape.dropTop}
      bad == shape.bad /\ Known(S) \ NestedKeys(S) # {}
  IN {GenMember(S, k, shape) : k \in IF bad THEN keys \ {BadKey(S)} ELSE keys}
     \cup (IF shape.extraTop THEN {<<ExtraKey, "scalar", "ok", <<>>>>} ELSE {})
     \cup (IF bad THEN {<<BadKey(S), "scalar", "bad", <<>>>>} ELSE {})

InputsOf(name) ==
  {[schema |-> name, value |-> Gen(SchemaOf(name), shape)] :
     shape \in Shapes(SchemaOf(name))}
ParseInputs == UNION {InputsOf(name) : name \in SchemaNames}

NotParsed == [done |-> FALSE, ok |-> FALSE, value |-> {}]
NoParse ==
  /\ parseInput = [schema |-> "Cookie", value |-> {}]
  /\ parsed = NotParsed

\* schema.parse(value)
Parse ==
  /\ ~parsed.done
  /\ LET r == ZodParse(SchemaOf(parseInput.schema), parseInput.value)
     IN parsed' = [done |-> TRUE, ok |-> r.ok, value |-> r.value]
  /\ UNCHANGED <<parseInput, exceptSchema>>

(* -------------------- BaseClient.requestList (base-client.ts) ---------- *)

\* Items in a list response.
MaxItems == 3

\* Items the server lists: a session, a session with a field the client does
\* not know, and an object that is not a session (its status is no status).
NoShape ==
  [rich |-> FALSE, extraTop |-> FALSE, extraNested |-> FALSE, dropTop |-> "",
   dropNested |-> "", empty |-> FALSE, bad |-> FALSE]
ListItems ==
  { Gen(SessionResponseSchema, NoShape),
    Gen(SessionResponseSchema, [NoShape EXCEPT !.extraTop = TRUE]),
    Gen(SessionResponseSchema, [NoShape EXCEPT !.dropTop = "status"]) }
ItemLists == UNION {[1..n -> ListItems] : n \in 0..MaxItems}

\* What `await this.rawRequest(endpoint)` gives: the top-level JSON type, for
\* an object what its items member is, and the elements of the array; or the
\* error rawRequest threw.
ListRaws ==
  {[t |-> "array", items |-> "none", elems |-> l] : l \in ItemLists}
  \cup {[t |-> "object", items |-> "array", elems |-> l] : l \in ItemLists}
  \cup {[t |-> "object", items |-> i, elems |-> <<>>] : i \in {"none", "string", "null"}}
  \cup {[t |-> k, items |-> "none", elems |-> <<>>] : k \in {"null", "number", "string", "thrown"}}

\* The path of the only endpoint listed, SessionsClient.list.
ListPath == ""

ItemsOf_ArrayOnly(raw) ==
  IF raw.t = "array" THEN [ok |-> TRUE, items |-> raw.elems]
  ELSE [ok |-> FALSE, items |-> <<>>]

\* The items of the raw response (208-224): ok is false where the malformed
\* list error is thrown.
ItemsOf(raw) ==
  IF raw.t = "array" THEN [ok |-> TRUE, items |-> raw.elems]
  ELSE IF raw.t = "object" /\ raw.items = "array" THEN [ok |-> TRUE, items |-> raw.elems]
  ELSE [ok |-> FALSE, items |-> <<>>]

ListPending == [done |-> FALSE, error |-> NoOutcome, items |-> <<>>]
NoList ==
  /\ listRaw = [t |-> "null", items |-> "none", elems |-> <<>>]
  /\ listResult = ListPending

\* requestList, from the moment rawRequest has settled: items.map(parse)
\* throws the ZodError of the first item that does not parse.
requestList ==
  /\ ~listResult.done
  /\ LET found == ItemsOf(listRaw)
         each == [i \in DOMAIN found.items |-> ZodParse(SessionResponseSchema, found.items[i])]
     IN listResult' =
          IF listRaw.t = "thrown"
            THEN [done |-> TRUE, error |-> Thrown("RequestError"), items |-> <<>>]
          ELSE IF ~found.ok
            THEN [done |-> TRUE,
                  error |-> NotteAPIError(0, JStr("Expected array or { items: [...] } response"),
                                          ListPath),
                  items |-> <<>>]
          ELSE IF \E i \in DOMAIN each : ~each[i].ok
            THEN [done |-> TRUE, error |-> Thrown("ZodError"), items |-> <<>>]
          ELSE [done |-> TRUE, error |-> Returned(JNull),
                items |-> [i \in DOMAIN each |-> each[i].value]]
  /\ UNCHANGED <<listRaw, exceptList>>

(* ------------------- SessionsClient (sessions/client.ts) --------------- *)

\* Endpoints one client is followed for.
MaxHanded == 2

\* An argument as the caller passes it: left out, null, or an object.
ArgsOf(name) ==
  {[given |-> g, value |-> {}] : g \in {"undefined", "null"}}
  \cup {[given |-> "object", value |-> i.value] : i \in InputsOf(name)}
\* The cookies argument of setCookies: an array of objects.
CookieLists ==
  {m[4] : m \in {k \in UNION {i.value : i \in InputsOf("SetCookiesRequest")} :
                   k[1] = "cookies"}}

\* JavaScript truthiness of an argument: `params ? ... : ...`.
Given(arg) == arg.given = "object"
\* Schema.parse(arg): null and undefined are not objects.
ParseArg(S, arg) ==
  IF arg.given = "object" THEN ZodParse(S, arg.value) ELSE [ok |-> FALSE, value |-> {}]
\* The body {} of a call without parameters.
EmptyBody == [ok |-> TRUE, value |-> {}]

NoArg == [given |-> "undefined", value |-> {}]
NoCall ==
  /\ clientCall = [op |-> "none", arg |-> NoArg, threw |-> "none", handed |-> FALSE,
                   method |-> "none", path |-> "", body |-> {}]
  /\ handed = 0

\* The call throws before it has built its endpoint.
Throws(op, arg, err) ==
  /\ clientCall' = [op |-> op, arg |-> arg, threw |-> err, handed |-> FALSE,
                    method |-> "none", path |-> "", body |-> {}]
  /\ UNCHANGED handed

\* return this.request(endpoint) / this.requestList(endpoint)
Request(op, arg, method, path, body) ==
  /\ handed < MaxHanded
  /\ clientCall' = [op |-> op, arg |-> arg, threw |-> "none", handed |-> TRUE,
                    method |-> method, path |-> path, body |-> body]
  /\ handed' = handed + 1

\* The operations that parse an optional params argument when it is given.
OptionalParams(op, arg, S, method, path) ==
  LET body == IF Given(arg) THEN ParseArg(S, arg) ELSE EmptyBody
  IN IF body.ok THEN Request(op, arg, method, path, body.value)
     ELSE Throws(op, arg, "ZodError")

\* start(params?) (36-49)
clientStart(arg) ==
  /\ OptionalParams("start", arg, SessionStartRequestSchema, "POST", "start")
  /\ UNCHANGED exceptClient

\* stop(sessionId) (51-58)
clientStop ==
  /\ Request("stop", NoArg, "DELETE", "s1/stop", {})
  /\ UNCHANGED exceptClient

\* status(sessionId) (60-67)
clientStatus ==
  /\ Request("status", NoArg, "GET", "s1", {})
  /\ UNCHANGED exceptClient

\* list(params?) (69-84)
clientList(arg) ==
  /\ OptionalParams("list", arg, SessionListRequestSchema, "GET", ListPath)
  /\ UNCHANGED exceptClient

\* scrape(sessionId, params?) (88-104)
clientScrape(arg) ==
  /\ OptionalParams("scrape", arg, ScrapeRequestSchema, "POST", "s1/page/scrape")
  /\ UNCHANGED exceptClient

\* observe(sessionId, params?) (106-122)
clientObserve(arg) ==
  /\ OptionalParams("observe", arg, ObserveRequestSchema, "POST", "s1/page/observe")
  /\ UNCHANGED exceptClient

\* execute(sessionId, action) (124-141): the action is always parsed.
clientExecute(arg) ==
  /\ LET body == ParseArg(ExecutionRequestSchema, arg)
     IN IF body.ok THEN Request("execute", arg, "POST", "s1/page/execute", body.value)
        ELSE Throws("execute", arg, "ZodError")
  /\ UNCHANGED exceptClient

\* setCookies(sessionId, cookies) (145-158): body { cookies }, as given.
clientSetCookies(cookies) ==
  /\ LET body == {<<"cookies", "array", "", cookies>>}
     IN Request("setCookies", [given |-> "object", value |-> body], "POST",
                "s1/cookies", body)
  /\ UNCHANGED exceptClient

\* getCookies(sessionId) (160-167)
clientGetCookies ==
  /\ Request("getCookies", NoArg, "GET", "s1/cookies", {})
  /\ UNCHANGED exceptClient

(* ------------------------------ the system ----------------------------- *)

\* No wrapper has been constructed.
NoWrapper ==
  /\ mode = "none"
  /\ attached = FALSE
  /\ optionsValid = TRUE
  /\ _sessionId = NULL
  /\ _response = NoSnap
  /\ _stopped = FALSE
  /\ pending = EmptyBag
  /\ nextCid = 1
  /\ sent = [start |-> 0, stop |-> 0, page |-> 0]
  /\ last = [op |-> "none", res |-> "none", sid |-> NULL, val |-> NoSnap, err |-> "none"]
  /\ startOks = 0
  /\ firstStop = NoSnap
  /\ latest = NoSnap
  /\ lateSettle = FALSE
  /\ usePc = "none"
  /\ fnOutcome = "none"
  /\ useResult = "none"
  /\ useStopCalls = 0

Init == NoWrapper /\ NoRequests /\ NoError /\ NoParse /\ NoList /\ NoCall /\ NoConfig

Next ==
  \/ (\E valid \in BOOLEAN : New(valid)) /\ UNCHANGED exceptSession
  \/ (\E id \in Ids : fromId(id)) /\ UNCHANGED exceptSession
  \/ (\E valid \in BOOLEAN : UseNew(valid)) /\ UNCHANGED exceptSession
  \/ UseStart /\ UNCHANGED exceptSession
  \/ (\E outcome \in {"value", "WorkError"} : FnSettles(outcome)) /\ UNCHANGED exceptSession
  \/ UseFinally /\ UNCHANGED exceptSession
  \/ CallStart /\ UNCHANGED exceptSession
  \/ CallStop /\ UNCHANGED exceptSession
  \/ (\E op \in PageOps, valid \in BOOLEAN : CallPageOp(op, valid)) /\ UNCHANGED exceptSession
  \/ ReadSessionId /\ UNCHANGED exceptSession
  \/ asyncDispose /\ UNCHANGED exceptSession
  \/ (\E c \in BagToSet(pending), snap \in StartResponses : startResolved(c, snap)) /\ UNCHANGED exceptSession
  \/ (\E c \in BagToSet(pending) : \E snap \in StopResponses(c.sid) : stopResolved(c, snap)) /\ UNCHANGED exceptSession
  \/ (\E c \in BagToSet(pending) : \E snap \in SessionResponses(c.sid) : pageResolved(c, snap)) /\ UNCHANGED exceptSession
  \/ (\E c \in BagToSet(pending), err \in RequestErrors : Rejected(c, err)) /\ UNCHANGED exceptSession

Spec == Init /\ [][Next]_vars

(* ------------------------ the request primitive alone ------------------ *)

RawInit ==
  /\ NoWrapper /\ NoError /\ NoParse /\ NoList /\ NoCall
  /\ requests = [r \in Rids |-> IdleRequest]
  /\ timeoutMs \in Timeouts
  /\ NoConfig

RawNext ==
  \/ \E r \in Rids, ep \in Endpoints : rawRequest(r, ep)
  \/ Tick
  \/ \E r \in Rids, status \in Statuses, text \in BodyTexts : FetchResolves(r, status, text)
  \/ \E r \in Rids : FetchRejects(r)
  \/ \E r \in Rids : Timeout(r)
  \/ \E r \in Rids : TimerFires(r)
  \/ \E r \in Rids : ErrorBody(r)
  \/ \E r \in Rids : OkBody(r)

SpecRaw == RawInit /\ [][RawNext]_vars

(* ------------------------ the error class alone ------------------------ *)

ErrorInit ==
  /\ NoWrapper /\ NoRequests /\ NoParse /\ NoList /\ NoCall /\ NoConfig
  /\ errorArgs \in ErrorArgs
  /\ error = NoOutcome

ErrorNext == Construct

SpecError == ErrorInit /\ [][ErrorNext]_vars

(* ------------------------ the schemas alone ---------------------------- *)

SchemaInit ==
  /\ NoWrapper /\ NoRequests /\ NoError /\ NoList /\ NoCall /\ NoConfig
  /\ parseInput \in ParseInputs
  /\ parsed = NotParsed

SchemaNext == Parse

SpecSchema == SchemaInit /\ [][SchemaNext]_vars

(* ------------------------ the list primitive alone --------------------- *)

ListInit ==
  /\ NoWrapper /\ NoRequests /\ NoError /\ NoParse /\ NoCall /\ NoConfig
  /\ listRaw \in ListRaws
  /\ listResult = ListPending

ListNext == requestList

SpecList == ListInit /\ [][ListNext]_vars

(* ------------------------ the sessions client alone -------------------- *)

ClientInit == NoWrapper /\ NoRequests /\ NoError /\ NoParse /\ NoList /\ NoCall /\ NoConfig

ClientNext ==
  \/ \E arg \in ArgsOf("SessionStartRequest") : clientStart(arg)
  \/ clientStop
  \/ clientStatus
  \/ \E arg \in ArgsOf("SessionListRequest") : clientList(arg)
  \/ \E arg \in ArgsOf("ScrapeRequest") : clientScrape(arg)
  \/ \E arg \in ArgsOf("ObserveRequest") : clientObserve(arg)
  \/ \E arg \in ArgsOf("ExecutionRequest") : clientExecute(arg)
  \/ \E cookies \in CookieLists : clientSetCookies(cookies)
  \/ clientGetCookies

SpecClient == ClientInit /\ [][ClientNext]_vars

(* ------------------------ construction and URLs alone ------------------ *)

ConfigInit ==
  /\ NoWrapper /\ NoError /\ NoParse /\ NoList /\ NoCall
  /\ requests = [r \in Rids |-> IdleRequest]
  /\ timeoutMs = 0
  /\ args \in Args
  /\ env \in Envs
  /\ client = NoClient
  /\ built = NoUrl

ConfigNext ==
  \/ constructor
  \/ \E endpointPath \in EndpointPaths : Build(endpointPath)

SpecConfig == ConfigInit /\ [][ConfigNext]_vars

(* ------------------------------ claims --------------------------------- *)

\* A stop() call made by the caller or by use.
StopCall == CallStop \/ UseFinally

\* C1, as stated: once a stop() has resolved, every later stop() resolves
\* with the snapshot the first stop returned and sends no request, so exactly
\* one stop request is sent in total.
C1_StopIdempotentAsStated ==
  firstStop # NoSnap =>
    /\ sent.stop = 1
    /\ ~(last.op = "stop" /\ last.res = "sent")
    /\ (last.op = "stop" /\ last.res \in {"returns", "resolved"}) => last.val = firstStop

\* C1, amended: a stop() call issued once the wrapper is stopped sends no
\* request, changes nothing and resolves with the cached response, which is
\* the snapshot of the most recently resolved start()/stop(); it is the first
\* stop's snapshot unless a start()/stop() issued before the first stop
\* resolved has resolved since.
C1_StopIdempotent ==
  [][ (StopCall /\ isStopped) =>
        /\ last'.res = "returns"
        /\ last'.val = latest
        /\ (~lateSettle => last'.val = firstStop)
        /\ sent' = sent /\ pending' = pending
        /\ UNCHANGED wrapper ]_vars

C1_Witness ==
  /\ startOks = 1
  /\ last.op = "stop" /\ last.res = "returns"
  /\ firstStop # NoSnap /\ last.val = firstStop
  /\ sent.stop = 1

\* C2, as stated: once assigned, the session identifier is a non-empty string
\* that never changes and is never cleared, whatever calls overlap.
C2_IdentifierStable ==
  [][ _sessionId # NULL => (_sessionId # "" /\ _sessionId' = _sessionId) ]_vars

\* C3, as stated: once its start request has succeeded, use sends exactly one
\* stop request for the session, whether fn resolves or rejects.
C3_UseSendsOneStopRequest ==
  (mode = "use" /\ usePc = "done" /\ startOks >= 1) => sent.stop = 1

\* C3, amended: once its start request has succeeded, use calls stop() on the
\* session exactly once, after fn has settled and whether fn resolved or
\* rejected; that call sends one stop request exactly when the wrapper is not
\* yet stopped and holds a non-empty identifier, and none otherwise.
C3_UseCallsStopOnce ==
  /\ [](mode = "use" =>
          /\ useStopCalls <= 1
          /\ (useStopCalls = 1 => fnOutcome # "none")
          /\ (usePc = "done" /\ startOks >= 1 => useStopCalls = 1))
  /\ [][ UseFinally =>
           /\ (~isStopped /\ Truthy(_sessionId)) => sent'.stop = sent.stop + 1
           /\ ~(~isStopped /\ Truthy(_sessionId)) => sent'.stop = sent.stop ]_vars

C3_Witness ==
  /\ mode = "use" /\ usePc = "done"
  /\ fnOutcome = "WorkError"
  /\ useStopCalls = 1 /\ sent.stop = 1

\* C4, as stated: when fn rejects with E, use rejects with that same E,
\* whatever the outcome of the cleanup stop call.
C4_UseRethrowsWorkError ==
  (mode = "use" /\ usePc = "done" /\ fnOutcome = "WorkError") => useResult = "WorkError"

\* C5, as stated: start() on a wrapper that is already active or stopped
\* fails without sending a start request, so a wrapper sends at most one
\* successful start request in its lifetime.
C5_StartSingleShot ==
  /\ [](startOks <= 1)
  /\ [][ (CallStart /\ isStarted) => (last'.res = "throws" /\ sent' = sent) ]_vars

\* C6, as stated: the page and cookie operations fail without sending a
\* request on an unstarted or stopped wrapper, and on an active wrapper send
\* their request for the held identifier.  A wrapper counts as active when it
\* holds an identifier the sessionId getter returns and is not stopped;
\* parameters the request schema rejects are left aside.
C6_PageOpsRequireActive ==
  [][ \A op \in PageOps :
        (\E valid \in BOOLEAN : CallPageOp(op, valid)) =>
          IF sessionId.ok /\ ~isStopped
            THEN \/ last'.res = "sent" /\ last'.sid = _sessionId
                 \/ last'.err = "ZodError"
            ELSE last'.res = "throws" /\ sent' = sent ]_vars

\* C7, as stated: after an operation whose response carries a session
\* snapshot resolves, the response getter equals that snapshot.
C7_ResponseTracksLatestSnapshot ==
  (last.res = "resolved" /\ last.op \in SnapshotOps) => response = last.val

\* C8: on a wrapper that was never started and not built by fromId, reading
\* sessionId throws the not-been-started error and sends no request.
C8_SessionIdThrowsBeforeStart ==
  [][ (ReadSessionId /\ startOks = 0 /\ ~attached) =>
        /\ last'.res = "throws" /\ last'.err = "NotStarted"
        /\ sent' = sent /\ pending' = pending ]_vars

C8_Witness ==
  /\ last.op = "sessionId" /\ last.res = "throws"
  /\ startOks = 0 /\ ~attached
  /\ sent.start = 1

\* C9: stop() on an unstarted wrapper throws before any I/O: no stop request
\* is sent and the wrapper stays unstarted and not stopped.
C9_StopBeforeStartThrows ==
  [][ (StopCall /\ ~isStarted) =>
        /\ last'.res = "throws" /\ last'.err = "NotStarted"
        /\ sent' = sent /\ pending' = pending
        /\ ~isStarted' /\ ~isStopped' ]_vars

C9_Witness ==
  /\ last.op = "stop" /\ last.res = "throws"
  /\ ~isStarted /\ ~isStopped
  /\ sent.stop = 0 /\ sent.start = 1

\* C10: the lifecycle only moves unstarted -> active -> stopped: a stopped
\* wrapper is started, and neither isStopped nor isStarted ever goes back to
\* false, so a stopped wrapper never becomes active again.
C10_LifecycleMonotone ==
  /\ [](isStopped => isStarted)
  /\ [][ (isStopped => isStopped') /\ (isStarted => isStarted') ]_vars

C10_Witness ==
  /\ isStopped
  /\ last.op = "start" /\ last.res = "resolved"

\* C11, as stated: fromId(client, id) sends no request and returns, for every
\* identifier the caller supplies, a wrapper that is already active: isStarted
\* is true, isStopped is false and sessionId returns exactly id.
C11_FromIdActive ==
  [][ \A id \in Ids :
        fromId(id) =>
          /\ sent' = sent /\ pending' = pending
          /\ isStarted' /\ ~isStopped'
          /\ sessionId'.ok /\ sessionId'.id = id ]_vars

\* C12, as stated: the disposal hook sends a stop request exactly when the
\* wrapper is active (isStarted) and not yet stopped; on an unstarted or
\* already stopped wrapper it sends nothing and returns without throwing.
C12_DisposeStopsActive ==
  [][ asyncDispose =>
        IF isStarted /\ ~isStopped
          THEN sent'.stop = sent.stop + 1 /\ last'.res = "sent"
          ELSE sent' = sent /\ pending' = pending /\ last'.res = "returns" ]_vars

\* How long call q has lasted: until it ended, or until now.
Lasted(q) == IF q.pc = "done" THEN q.took ELSE q.elapsed

\* C13, as stated: a call that has lasted as long as the configured timeout
\* is aborted and rejects with a NotteAPIError whose statusCode is 0, whose
\* message says the request timed out and whose path is the endpoint's path.
\* (A call still awaiting fetch with its timer due is about to be aborted.)
C13_TimeoutSurfaces ==
  \A r \in Rids :
    LET q == requests[r] IN
      (q.pc # "idle" /\ Lasted(q) >= timeoutMs) =>
        \/ q.pc = "fetch"
        \/ /\ q.pc = "done"
           /\ q.outcome.name = "NotteAPIError"
           /\ q.outcome.statusCode = 0
           /\ q.outcome.message[1] = "Request timed out"
           /\ q.outcome.path = q.endpoint.path

\* C14, as stated: a call whose response has a non-2xx status rejects with a
\* NotteAPIError carrying that status, the request path and the body: the
\* parsed JSON when the body is valid JSON, the raw body text otherwise.
C14_NonSuccessRaisesApiError ==
  \A r \in Rids :
    LET q == requests[r] IN
      (q.pc = "done" /\ q.response # NoResponse /\ ~Ok(q.response.status)) =>
        /\ q.outcome.name = "NotteAPIError"
        /\ q.outcome.statusCode = q.response.status
        /\ q.outcome.path = q.endpoint.path
        /\ q.outcome.errorBody =
             IF JsonParse(q.response.text).ok THEN JsonParse(q.response.text).value
             ELSE JStr(q.response.text)

\* The message has this piece.
Contains(message, piece) == \E i \in DOMAIN message : message[i] = piece

\* C15, as stated: the message of a NotteAPIError comes from the body's
\* detail field, else from its message field, else (a non-empty string body,
\* or any other body) it is a generic message that contains the status code.
C15_MessagePriority ==
  error # NoOutcome =>
    LET b == errorArgs.errorBody IN
      IF HasKey(b, "detail") THEN Contains(error.message, String(Member(b, "detail")))
      ELSE IF HasKey(b, "message") THEN Contains(error.message, String(Member(b, "message")))
      ELSE Contains(error.message, ToString(errorArgs.statusCode))

\* The value carries a key its schema does not declare: at the top level, or
\* inside one of its nested objects.
FlatKnown(n) == UNION {Known(n.variants[i]) : i \in DOMAIN n.variants}
UnknownTop(S, v) == \E m \in v : m[1] \notin Known(S)
UnknownNested(S, v) ==
  \E m \in v :
    /\ m[1] \in NestedKeys(S)
    /\ \E i \in DOMAIN m[4] : \E e \in m[4][i] : e[1] \notin FlatKnown(NestedOf(S, m[1]))
\* The value without those keys.
WithoutUnknown(S, v) ==
  {IF m[1] \in NestedKeys(S)
     THEN <<m[1], m[2], m[3],
            [i \in DOMAIN m[4] |->
               {e \in m[4][i] : e[1] \in FlatKnown(NestedOf(S, m[1]))}]>>
     ELSE m : m \in {k \in v : k[1] \in Known(S)}}

\* C18, as stated: every request schema rejects an object that has a field
\* outside its declared set, at the top level or inside the proxy settings
\* or the profile nested in it.
C18_RequestSchemasStrict ==
  LET S == SchemaOf(parseInput.schema)
      v == parseInput.value
      settings == {m \in v : m[1] \in {ExtraKey, "proxies", "profile"}}
  IN (/\ parsed.done
      /\ parseInput.schema \in RequestSchemas
      /\ UnknownTop(S, v) \/ UnknownNested(S, settings)) => ~parsed.ok

\* C19: every response schema and the cookie schema are passthrough: unknown
\* fields, at the top level or in a nested object, never change whether an
\* object parses, and the parsed result of an object that parses is the
\* object itself, unknown fields included.
C19_ResponseSchemasPassthrough ==
  LET S == SchemaOf(parseInput.schema)
      v == parseInput.value
  IN (parsed.done /\ parseInput.schema \in ResponseSchemas \cup {"Cookie"}) =>
       /\ parsed.ok = ZodParse(S, WithoutUnknown(S, v)).ok
       /\ parsed.ok => parsed.value = v

C19_Witness ==
  LET S == SchemaOf(parseInput.schema)
      v == parseInput.value
  IN /\ parsed.done /\ parsed.ok
     /\ parseInput.schema = "ScrapeResponse"
     /\ UnknownTop(S, v) /\ UnknownNested(S, v)
     /\ parsed.value = v

\* C20, as stated: SetCookiesRequestSchema rejects a request whose cookies
\* field is missing, is an empty array, or has an element that lacks one of
\* the required cookie fields.
C20_SetCookiesNeedsCookies ==
  LET v == parseInput.value IN
    (/\ parsed.done
     /\ parseInput.schema = "SetCookiesRequest"
     /\ \/ "cookies" \notin Keys(v)
        \/ \E m \in v :
             /\ m[1] = "cookies" /\ m[2] = "array"
             /\ \/ m[4] = <<>>
                \/ \E i \in DOMAIN m[4] : ~(CookieSchema.required \subseteq Keys(m[4][i])))
      => ~parsed.ok

\* The raw response is a list: an array, or an object whose items is one.
ListShaped(raw) == raw.t = "array" \/ (raw.t = "object" /\ raw.items = "array")
\* Every element is a session.
AllValid(l) == \A i \in DOMAIN l : ZodParse(SessionResponseSchema, l[i]).ok

\* C16: for a raw response that is an array, or an object whose items field
\* is an array, requestList returns the parsed elements, one per element and
\* in the server's order (or throws the validation error when an element is
\* not valid, never a shorter list); for every other top-level shape it
\* throws a NotteAPIError with statusCode 0.
C16_ListKeepsOrder ==
  (listResult.done /\ listRaw.t # "thrown") =>
    IF ListShaped(listRaw)
      THEN IF AllValid(listRaw.elems)
        THEN /\ listResult.error.name = "none"
             /\ Len(listResult.items) = Len(listRaw.elems)
             /\ \A i \in DOMAIN listRaw.elems :
                  listResult.items[i] = ZodParse(SessionResponseSchema, listRaw.elems[i]).value
             /\ listResult.items = listRaw.elems
        ELSE listResult.error.name = "ZodError" /\ listResult.items = <<>>
      ELSE /\ listResult.error.name = "NotteAPIError"
           /\ listResult.error.statusCode = 0

C16_Witness ==
  /\ listResult.done
  /\ listRaw.t = "object" /\ listRaw.items = "array"
  /\ Len(listRaw.elems) = 3
  /\ listRaw.elems[1] = listRaw.elems[3] /\ listRaw.elems[1] # listRaw.elems[2]
  /\ listResult.items = listRaw.elems

\* The request schema of each operation that takes parameters.
RequestSchemaOf(op) ==
  CASE op = "start" -> SessionStartRequestSchema
    [] op = "list" -> SessionListRequestSchema
    [] op = "scrape" -> ScrapeRequestSchema
    [] op = "observe" -> ObserveRequestSchema
    [] op = "execute" -> ExecutionRequestSchema
    [] op = "setCookies" -> SetCookiesRequestSchema

\* C17, as stated: a call of start, list, scrape, observe, execute or
\* setCookies whose parameters (an object the caller passes) fail the
\* operation's request schema throws, and no endpoint reaches the request
\* primitive.
C17_InvalidParamsSendNothing ==
  (/\ clientCall.op \in {"start", "list", "scrape", "observe", "execute", "setCookies"}
   /\ clientCall.arg.given = "object"
   /\ ~ParseArg(RequestSchemaOf(clientCall.op), clientCall.arg).ok)
    => (clientCall.threw = "ZodError" /\ ~clientCall.handed)

\* The value is a key: a string that is not empty.
YieldsKey(str) == str # UNDEFINED /\ str # <<>>

\* C21: a constructed client holds the explicit apiKey option when one is
\* given and otherwise the NOTTE_API_KEY of the environment; when neither
\* yields a key the constructor throws AuthenticationError; the apiKey of a
\* constructed client is non-empty and never changes afterwards.
C21_ApiKeyResolved ==
  /\ [](client.state = "constructed" =>
          /\ YieldsKey(client.apiKey)
          /\ IF args.options.apiKey # UNDEFINED
               THEN client.apiKey = args.options.apiKey
               ELSE env.process /\ client.apiKey = env.NOTTE_API_KEY)
  /\ []((/\ client.state # "none"
         /\ ~YieldsKey(args.options.apiKey)
         /\ ~(env.process /\ YieldsKey(env.NOTTE_API_KEY)))
          => (client.state = "threw" /\ client.error = "AuthenticationError"))
  /\ [][ client.state = "constructed" =>
           (client'.state = "constructed" /\ client'.apiKey = client.apiKey) ]_vars

C21_Witness ==
  /\ client.state = "constructed"
  /\ args.options.apiKey = UNDEFINED
  /\ client.apiKey = <<"test-key">>
  /\ built.called

\* The string without the slashes it ends with, and without those it starts with.
NoTrail(str) ==
  LET hi == CHOOSE i \in 0..Len(str) :
              /\ i = 0 \/ str[i] # "/"
              /\ \A j \in (i + 1)..Len(str) : str[j] = "/"
  IN SubSeq(str, 1, hi)
NoLead(str) ==
  LET lo == CHOOSE i \in 1..(Len(str) + 1) :
              /\ i = Len(str) + 1 \/ str[i] # "/"
              /\ \A j \in 1..(i - 1) : str[j] = "/"
  IN SubSeq(str, lo, Len(str))

\* C22: buildUrl joins the server URL, the domain prefix and the relative
\* path with exactly one slash between segments, whatever slashes the server
\* URL ends with and the relative path starts with, and returns the domain
\* URL, without a slash at its end, when the relative path is empty.
C22_BuildUrlOneSlash ==
  built.called =>
    LET server == NoTrail(client.serverUrl)
        domain == IF client.baseEndpointPath = NullPath THEN server
                  ELSE server \o <<"/">> \o client.baseEndpointPath
        relative == NoLead(built.endpointPath)
    IN IF relative = <<>>
         THEN built.url = domain /\ built.url[Len(built.url)] # "/"
         ELSE built.url = domain \o <<"/">> \o relative

C22_Witness ==
  /\ built.called
  /\ client.serverUrl = DEFAULT_SERVER_URL \o <<"/">>
  /\ built.endpointPath = <<"/", "foo">>
  /\ built.url = <<"https:", "/", "/", "api.notte.cc", "/", "test", "/", "foo">>

\* C23, as stated: the timer a call starts is cleared on every exit path of
\* the request primitive, a failure after the timer is armed included: no
\* call has returned or thrown with its timer still pending.
C23_TimerClearedOnExit ==
  \A r \in Rids : requests[r].pc = "done" => requests[r].timer # "pending"

\* Requests sent so far, of every kind.
Total(s) == s.start + s.stop + s.page

\* C24: nothing is retried: a call of an operation sends at most one request,
\* and a request that fails (non-2xx, timeout, transport error, response that
\* does not validate) is surfaced to its caller, once, with no second request:
\* the failed call is over and no request is sent in its place.
C24_NoRetry ==
  /\ [](Total(sent) = nextCid - 1 /\ BagCardinality(pending) <= Total(sent))
  /\ [][ /\ Total(sent') <= Total(sent) + 1
         /\ \A c \in BagToSet(pending), err \in RequestErrors :
              Rejected(c, err) =>
                /\ sent' = sent
                /\ pending' = pending (-) SetToBag({c})
                /\ last'.op = c.op /\ last'.res = "rejected" /\ last'.err = err ]_vars

C24_Witness ==
  /\ last.op = "start" /\ last.res = "rejected" /\ last.err = "Timeout"
  /\ sent = [start |-> 1, stop |-> 0, page |-> 0]
  /\ pending = EmptyBag

\* Call r takes a step of its own.
StepOf(r) ==
  \/ \E ep \in Endpoints : rawRequest(r, ep)
  \/ \E status \in Statuses, text \in BodyTexts : FetchResolves(r, status, text)
  \/ FetchRejects(r)
  \/ Timeout(r)
  \/ TimerFires(r)
  \/ ErrorBody(r)
  \/ OkBody(r)

\* C25: calls in flight on one client do not interfere: each has its own
\* timer and abort signal, so a call is aborted only when it has itself lasted
\* the timeout, a step of one call (its timeout or failure included) leaves
\* every other call as it was, and no request changes apiKey, serverUrl or
\* timeoutMs.
C25_RequestsIndependent ==
  /\ [](\A r \in Rids :
          (requests[r].outcome.name = "NotteAPIError" /\ requests[r].outcome.statusCode = 0)
            => requests[r].took >= timeoutMs)
  /\ [][ /\ client' = client /\ timeoutMs' = timeoutMs
         /\ \A r \in Rids :
              StepOf(r) => \A o \in Rids \ {r} : requests'[o] = requests[o] ]_vars

C25_Witness ==
  /\ requests["r1"].outcome.name = "NotteAPIError"
  /\ requests["r1"].outcome.statusCode = 0
  /\ requests["r2"].pc = "done"
  /\ requests["r2"].outcome.name = "none"
  /\ requests["r2"].took >= 1

\* C26: in every reachable state isStopped implies that the cached response
\* is not null and that the identifier is set, so a stop() call on a stopped
\* wrapper returns a snapshot, never null.
C26_StoppedHoldsResponse ==
  /\ [](isStopped => (response # NoSnap /\ _sessionId # NULL))
  /\ [][ (StopCall /\ isStopped) =>
           (last'.res = "returns" /\ last'.val # NoSnap /\ last'.val.status # "none") ]_vars

C26_Witness ==
  /\ isStopped
  /\ last.op = "stop" /\ last.res = "returns"
  /\ last.val = response /\ response.status = "closed"

\* C27, as stated: a start() or stop() call whose request fails leaves the
\* wrapper unchanged: after a failed start the wrapper is still unstarted with
\* no identifier and start() may be called again; after a failed stop it is
\* still active and not stopped with its cached response unchanged, and a
\* later stop() sends a new stop request.
C27_FailureLeavesStateAsStated ==
  [][ \A c \in BagToSet(pending), err \in RequestErrors :
        Rejected(c, err) =>
          /\ UNCHANGED wrapper
          /\ c.op = "start" =>
               (~isStarted' /\ _sessionId' = NULL /\ startOutcome' = "sends")
          /\ c.op = "stop" =>
               (isStarted' /\ ~isStopped' /\ stopOutcome' = "sends") ]_vars

\* C27, amended: a failed start or stop request changes nothing in the
\* wrapper: identifier, cached response and stopped flag are what they were
\* just before the failure.  So, unless another call on the wrapper resolved
\* while the failed one was in flight: after a failed start the wrapper still
\* holds no usable identifier and start() may be called again, and after a
\* failed stop it is still active and not stopped and a later stop() sends a
\* new stop request.
C27_FailureLeavesState ==
  [][ \A c \in BagToSet(pending), err \in RequestErrors :
        Rejected(c, err) =>
          /\ UNCHANGED wrapper
          /\ (c.op = "start" /\ ~Truthy(_sessionId)) =>
               (~Truthy(_sessionId') /\ startOutcome' = "sends")
          /\ (c.op = "stop" /\ ~isStopped /\ _sessionId = c.sid) =>
               (isStarted' /\ ~isStopped' /\ stopOutcome' = "sends") ]_vars

C27_Witness ==
  /\ last.op = "stop" /\ last.res = "rejected"
  /\ isStarted /\ ~isStopped
  /\ startOks = 1 /\ response = latest
  /\ sent.stop = 1

\* C28: in use, the work function runs only after start has succeeded and use
\* calls stop only after the work function has settled; when start fails the
\* work function is never invoked, no stop request is sent and use rejects
\* with the start error.
C28_UseOrdering ==
  /\ [](mode = "use" =>
          /\ (usePc \in {"fn", "finally", "stop"} \/ fnOutcome # "none") => startOks >= 1
          /\ (useStopCalls > 0 \/ usePc = "stop") => fnOutcome # "none"
          /\ useResult = "StartError" =>
               (startOks = 0 /\ fnOutcome = "none" /\ useStopCalls = 0 /\ sent.stop = 0))
  /\ [][ \A c \in BagToSet(pending), err \in RequestErrors :
           (Rejected(c, err) /\ c.op = "start" /\ c.by = "use") =>
             (usePc' = "done" /\ useResult' = "StartError" /\ sent' = sent) ]_vars

C28_Witness ==
  /\ mode = "use" /\ usePc = "done" /\ useResult = "StartError"
  /\ last.op = "start" /\ last.res = "rejected"
  /\ sent = [start |-> 1, stop |-> 0, page |-> 0]
  /\ fnOutcome = "none"

\* C29, as stated: in every reachable state, wrappers built by fromId with
\* any identifier and wrappers started against any server-returned session_id
\* included, isStarted is true exactly when reading sessionId succeeds.
C29_StartedIffSessionId ==
  mode # "none" => (isStarted <=> sessionId.ok)

\* C30, as stated: once a stop() call has resolved, the cached response and
\* the identifier stay what they are under every later event on the wrapper,
\* the resolution of calls issued before the stop resolved included.
C30_StopSnapshotStableAsStated ==
  [][ isStopped => (isStopped' /\ _response' = _response /\ _sessionId' = _sessionId) ]_vars

\* C30, amended: once a stop() call has resolved, the cached response is that
\* stop's snapshot until another start() or stop() call resolves, and no other
\* event changes the cached response or the identifier of a stopped wrapper:
\* a start response that arrives late replaces both, a stop response that
\* arrives late replaces the cached response.
C30_StopSnapshotStable ==
  /\ []((firstStop # NoSnap /\ ~lateSettle) => (isStopped /\ response = firstStop))
  /\ [][ isStopped =>
           /\ isStopped'
           /\ (_response' # _response \/ _sessionId' # _sessionId) =>
                (last'.res = "resolved" /\ last'.op \in {"start", "stop"}
                 /\ _response' = last'.val)
           /\ _sessionId' # _sessionId => last'.op = "start" ]_vars

C30_Witness ==
  /\ isStopped /\ response = firstStop
  /\ last.op = "status" /\ last.res = "resolved" /\ last.val # response

====
